---------------------------- MODULE Spec2Model ----------------------------
(***************************************************************************)
(* A model of ripoff's main(): disc identification, MusicBrainz lookup,    *)
(* release selection, output directory planning and the per-track          *)
(* rip-and-encode loop (src/src/main.rs), with the release graph of        *)
(* src/src/mb.rs.                                                          *)
(*                                                                         *)
(* Text is a sequence of one-character strings.  Characters outside ASCII  *)
(* are written by their code point ("U+2215").                             *)
(***************************************************************************)
EXTENDS Integers, Sequences, FiniteSets, TLC

(***************************************************************************)
(* Bounds of the model.                                                    *)
(***************************************************************************)
MaxReleases == 2
MaxTracks == 2
MaxSector == 2
MaxLen == 3

(***************************************************************************)
(* Program constants.                                                      *)
(***************************************************************************)
CD_SAMPLE_RATE == 44100
CD_FRAMEWORDS == 1176
BITS_PER_SAMPLE == 16

(***************************************************************************)
(* PathSanitizer                                                           *)
(***************************************************************************)
DivisionSlash == "U+2215"

NtfsPatterns == << "/", ":", "?", "\"", "|", "*" >>

NtfsReplacements ==
    << "U+2215", "U+02D0", "U+0294", "U+00A8", "U+01C0", "U+04FF" >>

\* The index of the pattern that matches character c, 0 when none does.
PatternIndex(c) ==
    IF \E i \in 1..Len(NtfsPatterns) : NtfsPatterns[i] = c
    THEN CHOOSE i \in 1..Len(NtfsPatterns) :
            /\ NtfsPatterns[i] = c
            /\ \A j \in 1..(i - 1) : NtfsPatterns[j] # c
    ELSE 0

\* str::replace("/", "\u{2215}")
MapDefault(filename) ==
    [i \in 1..Len(filename) |->
        IF filename[i] = "/" THEN DivisionSlash ELSE filename[i]]

\* MapNtfs with the last pattern left out of the matcher.
MapNtfsShort(filename) ==
    [i \in 1..Len(filename) |->
        IF PatternIndex(filename[i]) \in 1..(Len(NtfsPatterns) - 1)
        THEN NtfsReplacements[PatternIndex(filename[i])]
        ELSE filename[i]]

\* AhoCorasick::replace_all: every (one-character, non-overlapping) match of
\* pattern i is replaced by replacement i, in one pass over the input.
MapNtfs(filename) ==
    [i \in 1..Len(filename) |->
        IF PatternIndex(filename[i]) # 0
        THEN NtfsReplacements[PatternIndex(filename[i])]
        ELSE filename[i]]

\* PathSanitizer::map
Map(sanitizer, filename) ==
    IF sanitizer = "Default" THEN MapDefault(filename) ELSE MapNtfs(filename)

\* The sanitizer main() constructs from the command-line flag.
ChooseSanitizer(flag) ==
    IF flag THEN "Default" ELSE "Ntfs"

(***************************************************************************)
(* Text formatting                                                         *)
(***************************************************************************)
Digit(d) ==
    CASE d = 0 -> "0" [] d = 1 -> "1" [] d = 2 -> "2" [] d = 3 -> "3"
      [] d = 4 -> "4" [] d = 5 -> "5" [] d = 6 -> "6" [] d = 7 -> "7"
      [] d = 8 -> "8" [] d = 9 -> "9"

RECURSIVE Decimal(_)
\* "{}" of an unsigned integer
Decimal(n) ==
    IF n < 10 THEN << Digit(n) >>
    ELSE Append(Decimal(n \div 10), Digit(n % 10))

\* "{:02}" of an unsigned integer
Decimal02(n) ==
    IF n < 10 THEN << "0" >> \o Decimal(n) ELSE Decimal(n)

(***************************************************************************)
(* The release graph (mb.rs)                                               *)
(***************************************************************************)
Credit(n, j) == [name |-> n, joinphrase |-> j]

Medium(p, d, t) == [position |-> p, discs |-> d, tracks |-> t]

RECURSIVE ArtistStringSpaced(_)
\* ArtistString with a space put between the credits.
ArtistStringSpaced(artist_credit) ==
    IF artist_credit = << >> THEN << >>
    ELSE Head(artist_credit).name \o Head(artist_credit).joinphrase
            \o (IF Tail(artist_credit) = << >> THEN << >> ELSE << " " >>)
            \o ArtistStringSpaced(Tail(artist_credit))

RECURSIVE ArtistString(_)
\* Release::artist_string: name, joinphrase, name, joinphrase, ...
ArtistString(artist_credit) ==
    IF artist_credit = << >> THEN << >>
    ELSE Head(artist_credit).name \o Head(artist_credit).joinphrase
            \o ArtistString(Tail(artist_credit))

RelSingle ==
    [ artist_credit |->
        << Credit(<< "A", "i", "r" >>, << " ", "&", " " >>),
           Credit(<< "V", "a", "r", "d", "a" >>, << >>) >>,
      title |-> << "1", "/", "2", ":" >>,
      media |->
        << Medium(1, << "d1" >>,
                  << << "I", "n", "t", "r", "o" >>, << "a", "/", "b" >> >>) >> ]

RelMulti ==
    [ artist_credit |-> << Credit(<< "X" >>, << >>) >>,
      title |-> << "L", "i", "v", "e", "?" >>,
      media |->
        << Medium(1, << "d2" >>, << << "O", "n", "e" >>, << "T", "w", "o" >> >>),
           Medium(2, << "d2", "d1" >>, << << "C", "o", "d", "a" >> >>) >> ]

ReleaseSet == { RelSingle, RelMulti }

DiscIds == { "d1", "d2" }

RECURSIVE SeqsUpTo(_, _)
\* The sequences over S of length at most n.
SeqsUpTo(S, n) ==
    IF n = 0 THEN { << >> }
    ELSE LET shorter == SeqsUpTo(S, n - 1)
         IN  shorter \cup { Append(s, x) : s \in shorter, x \in S }

ReleaseGraphs == SeqsUpTo(ReleaseSet, MaxReleases)

\* mb::DiscId, the lookup response: the disc id it answers and its releases.
LookupResponse(id, releases) == [ id |-> id, releases |-> releases ]

\* No response yet.
NoInfo == LookupResponse("none", << >>)

NoRelease == [ artist_credit |-> << >>, title |-> << >>, media |-> << >> ]

NoMedium == Medium(0, << >>, << >>)

\* main.rs 84-106: the summary of each release, by the text it is built from
\* (the ids, catalogue number and barcode are not modelled).
Summaries(releases) ==
    [i \in 1..Len(releases) |->
        [ artist |-> ArtistString(releases[i].artist_credit),
          title |-> releases[i].title ]]

\* FindMedium that takes the first medium without looking at its discs.
FindMediumFirst(media, id) ==
    IF Len(media) > 0 THEN 1 ELSE 0

\* media.iter().find(|medium| medium.discs.iter().any(|disc| disc.id == disc_id)):
\* the index of the first medium holding the disc id, 0 when none does.
FindMedium(media, id) ==
    IF \E i \in 1..Len(media) : \E k \in 1..Len(media[i].discs) : media[i].discs[k] = id
    THEN CHOOSE i \in 1..Len(media) :
            /\ \E k \in 1..Len(media[i].discs) : media[i].discs[k] = id
            /\ \A j \in 1..(i - 1) :
                  \A k \in 1..Len(media[j].discs) : media[j].discs[k] # id
    ELSE 0

\* format!("{} - {}", artist_string, title)
DirNameText(release) ==
    ArtistString(release.artist_credit) \o << " ", "-", " " >> \o release.title

FlacExt == << ".", "f", "l", "a", "c" >>

\* FileName with "{}" in place of "{:02}".
FileNameUnpadded(multi, position, num, title) ==
    IF multi
    THEN Decimal(position) \o << "-" >> \o Decimal(num) \o << " " >> \o title \o FlacExt
    ELSE Decimal(num) \o << " " >> \o title \o FlacExt

\* format!("{}-{:02} {}.flac", ..) or format!("{:02} {}.flac", ..)
FileName(multi, position, num, title) ==
    IF multi
    THEN Decimal(position) \o << "-" >> \o Decimal02(num) \o << " " >> \o title \o FlacExt
    ELSE Decimal02(num) \o << " " >> \o title \o FlacExt

HasChar(text, c) == \E i \in 1..Len(text) : text[i] = c

(***************************************************************************)
(* 32-bit unsigned arithmetic, on two 16-bit limbs << high, low >>         *)
(***************************************************************************)
Limb == 65536

\* `x as u32`: the low 32 bits of an integer.
AsU32(x) == << (x \div Limb) % Limb, x % Limb >>

\* Whether the u32 product u * m leaves 32 bits (m below 2^15).
MulOverflows(u, m) == u[1] * m + ((u[2] * m) \div Limb) >= Limb

\* The u32 product u * m, wrapped to 32 bits (m below 2^15).
MulWrap(u, m) ==
    << (u[1] * m + ((u[2] * m) \div Limb)) % Limb, (u[2] * m) % Limb >>

\* One step of the long division of a u32 by d, a byte at a time.
DivStep(qr, byte, d) ==
    << qr[1] * 256 + ((qr[2] * 256 + byte) \div d), (qr[2] * 256 + byte) % d >>

\* The truncated u32 quotient u / d (d between 2 and 2^22).
DivU32(u, d) ==
    DivStep(DivStep(DivStep(DivStep(<< 0, 0 >>, u[1] \div 256, d),
                            u[1] % 256, d),
                    u[2] \div 256, d),
            u[2] % 256, d)[1]

(***************************************************************************)
(* Sector arithmetic of one track (main.rs 175-178).  Sector numbers are   *)
(* u64; total_sectors holds the wrapped u64 value by its signed            *)
(* representative (2^64 - k is held as -k).                                *)
(***************************************************************************)
TotalSectors(first, last) == last - first + 1

\* Builds with overflow checks panic where the arithmetic leaves its type.
RangePanics(checks, first, last) ==
    checks /\ ( \/ last < first
                \/ MulOverflows(AsU32(TotalSectors(first, last)), CD_FRAMEWORDS) )

\* total_sectors as u32 * CD_FRAMEWORDS / (CD_SAMPLE_RATE * track_channels)
TrackDuration(total, channels) ==
    DivU32(MulWrap(AsU32(total), CD_FRAMEWORDS), CD_SAMPLE_RATE * channels)

Channels == { 1, 2 }

(***************************************************************************)
(* State                                                                   *)
(***************************************************************************)
VARIABLES
    ntfs_filenames,   \* Cli::ntfs_filenames
    overflow_checks,  \* whether the build checks integer overflow
    pc,               \* position in main()
    outcome,          \* "running", "Ok", or the error main() ended with
    path_sanitizer,   \* "none", "Default" or "Ntfs"
    disc_id,          \* the disc id read from the device
    mb_info,          \* the lookup response
    release_summaries, \* the summaries offered to the selection prompt
    select_prompts,   \* number of release-selection prompts shown
    selected_release,
    multi_disc,
    mb_disc_info,     \* the matched medium
    dir_name,
    album_exists,     \* whether album_dir exists on the filesystem
    album_old,        \* whether album_dir holds its prior contents, untouched
    confirm_prompts,  \* number of overwrite confirmations asked
    overwrite,        \* "none", "yes" or "no"
    removed,          \* whether remove_dir_all ran on album_dir
    created,          \* whether create_dir_all succeeded
    files,            \* names of the files this run created in album_dir
    drive,            \* "closed", "identified" or "open"
    errors_buf,       \* whether the drive holds undrained error text
    messages_buf,     \* whether the drive holds undrained message text
    undrained,        \* whether the drive was opened or read since the last drain
    track_count,
    track_num,
    audio_tracks,     \* numbers of the tracks found to be audio
    first_sector,
    last_sector,
    total_sectors,
    track_channels,
    track_duration,
    file_name,
    encoder,          \* the FLAC encoder of the current track
    cursor,           \* the read engine's next sector
    seeks,            \* number of seeks issued for the current track
    reads,            \* sectors read for the current track, in order
    writes,           \* << sector, frames >> written to the encoder, in order
    san_kind,         \* sanitizer under test
    san_in,
    san_out,
    san_applied

cliVars == << ntfs_filenames, overflow_checks >>
mbVars == << path_sanitizer, disc_id, mb_info, release_summaries, select_prompts,
             selected_release,
             multi_disc, mb_disc_info >>
fsVars == << dir_name, album_exists, album_old, confirm_prompts, overwrite,
             removed, created, files >>
driveVars == << drive, errors_buf, messages_buf, undrained, track_count, track_num,
                audio_tracks >>
trackVars == << first_sector, last_sector, total_sectors, track_channels,
                track_duration, file_name, encoder, cursor, seeks, reads,
                writes >>
sanVars == << san_kind, san_in, san_out, san_applied >>

vars == << cliVars, pc, outcome, mbVars, fsVars, driveVars, trackVars, sanVars >>

NoEncoder ==
    [ state |-> "none", file |-> << >>, channels |-> 0, sample_rate |-> 0,
      bits_per_sample |-> 0 ]

\* The per-iteration locals of the track loop, before the iteration sets them.
TrackLocalsInit ==
    /\ first_sector = 0
    /\ last_sector = 0
    /\ total_sectors = 0
    /\ track_channels = 0
    /\ track_duration = 0
    /\ file_name = << >>
    /\ encoder = NoEncoder
    /\ seeks = 0
    /\ reads = << >>
    /\ writes = << >>

MainInit ==
    /\ ntfs_filenames \in BOOLEAN
    /\ overflow_checks \in BOOLEAN
    /\ pc = "start"
    /\ outcome = "running"
    /\ path_sanitizer = "none"
    /\ disc_id = "none"
    /\ mb_info = NoInfo
    /\ release_summaries = << >>
    /\ select_prompts = 0
    /\ selected_release = NoRelease
    /\ multi_disc = FALSE
    /\ mb_disc_info = NoMedium
    /\ dir_name = << >>
    /\ album_exists \in BOOLEAN
    /\ album_old = album_exists
    /\ confirm_prompts = 0
    /\ overwrite = "none"
    /\ removed = FALSE
    /\ created = FALSE
    /\ files = { }
    /\ drive = "closed"
    /\ errors_buf = FALSE
    /\ messages_buf = FALSE
    /\ undrained = FALSE
    /\ track_count = 0
    /\ track_num = 0
    /\ audio_tracks = { }
    /\ TrackLocalsInit
    /\ cursor = 0

SanIdle ==
    /\ san_kind = "none"
    /\ san_in = << >>
    /\ san_out = << >>
    /\ san_applied = FALSE

Init == MainInit /\ SanIdle

\* Fail that records the error and goes on with the track loop.
FailContinue(kind) ==
    /\ pc' = "loop"
    /\ outcome' = kind

\* `?`, bail! and panics: main() ends with the error.
Fail(kind) ==
    /\ pc' = "done"
    /\ outcome' = kind

Goto(label) ==
    /\ pc' = label
    /\ UNCHANGED outcome

(***************************************************************************)
(* main(), lines 61-120: arguments, disc id, lookup, release selection     *)
(***************************************************************************)
\* 61-67: Cli::parse and the choice of the sanitizer
SelectSanitizer ==
    /\ pc = "start"
    /\ path_sanitizer' = ChooseSanitizer(ntfs_filenames)
    /\ Goto("read_disc")
    /\ UNCHANGED << cliVars, disc_id, mb_info, release_summaries, select_prompts, selected_release,
                    multi_disc, mb_disc_info, fsVars, driveVars, trackVars, sanVars >>

\* 69-76: DiscId::read(device)?
ReadDiscId ==
    /\ pc = "read_disc"
    /\ \/ /\ Fail("DeviceError")
          /\ UNCHANGED disc_id
       \/ /\ disc_id' \in DiscIds
          /\ Goto("lookup")
    /\ UNCHANGED << cliVars, path_sanitizer, mb_info, release_summaries, select_prompts,
                    selected_release, multi_disc, mb_disc_info, fsVars,
                    driveVars, trackVars, sanVars >>

\* AfterLookup without the is_empty() check.
AfterLookupUnchecked(releases) == Goto("select")

\* Where main() goes once the lookup answered with `releases` (80-82).
AfterLookup(releases) ==
    IF releases = << >> THEN Fail("NoReleaseFound") ELSE Goto("select")

\* 78-82: mb::DiscId::lookup(..)? and the empty-response check
Lookup ==
    /\ pc = "lookup"
    /\ \/ /\ Fail("LookupError")
          /\ UNCHANGED mb_info
       \/ \E response \in ReleaseGraphs :
            /\ mb_info' = LookupResponse(disc_id, response)
            /\ AfterLookup(response)
    /\ UNCHANGED << cliVars, path_sanitizer, disc_id, release_summaries, select_prompts,
                    selected_release, multi_disc, mb_disc_info, fsVars,
                    driveVars, trackVars, sanVars >>

\* 84-115: the summaries, the selection prompt, the selected release
SelectRelease ==
    /\ pc = "select"
    /\ release_summaries' = Summaries(mb_info.releases)
    /\ select_prompts' = select_prompts + 1
    /\ \/ /\ Fail("PromptError")
          /\ UNCHANGED << selected_release, multi_disc >>
       \/ \E selected_index \in 1..Len(mb_info.releases) :
            /\ selected_release' = mb_info.releases[selected_index]
            /\ multi_disc' = (Len(mb_info.releases[selected_index].media) > 1)
            /\ Goto("match")
    /\ UNCHANGED << cliVars, path_sanitizer, disc_id, mb_info, mb_disc_info,
                    fsVars, driveVars, trackVars, sanVars >>

\* MatchMedium that creates the album directory before it looks for the
\* medium.
MatchMediumCreatesFirst ==
    /\ pc = "match"
    /\ album_exists' = TRUE
    /\ created' = TRUE
    /\ LET found == FindMedium(selected_release.media, disc_id)
       IN  IF found = 0
           THEN /\ Fail("NoMatchingMedium")
                /\ UNCHANGED mb_disc_info
           ELSE /\ mb_disc_info' = selected_release.media[found]
                /\ Goto("plan")
    /\ UNCHANGED << cliVars, path_sanitizer, disc_id, mb_info, release_summaries,
                    select_prompts, selected_release, multi_disc, dir_name,
                    album_old, confirm_prompts, overwrite, removed, files,
                    driveVars, trackVars, sanVars >>

\* 116-120: the medium that holds the disc id
MatchMedium ==
    /\ pc = "match"
    /\ LET found == FindMedium(selected_release.media, disc_id)
       IN  IF found = 0
           THEN /\ Fail("NoMatchingMedium")
                /\ UNCHANGED mb_disc_info
           ELSE /\ mb_disc_info' = selected_release.media[found]
                /\ Goto("plan")
    /\ UNCHANGED << cliVars, path_sanitizer, disc_id, mb_info, release_summaries, select_prompts,
                    selected_release, multi_disc, fsVars, driveVars, trackVars,
                    sanVars >>

(***************************************************************************)
(* main(), lines 122-140: the album directory                              *)
(***************************************************************************)
\* PlanDirectory that asks for the confirmation whether or not the path
\* exists.
PlanDirectoryAlwaysAsk ==
    /\ pc = "plan"
    /\ dir_name' = Map(path_sanitizer, DirNameText(selected_release))
    /\ Goto("confirm")
    /\ UNCHANGED << cliVars, mbVars, album_exists, album_old, confirm_prompts,
                    overwrite, removed, created, files, driveVars, trackVars,
                    sanVars >>

\* 122-129: dir_name, album_dir and album_dir.exists()
PlanDirectory ==
    /\ pc = "plan"
    /\ dir_name' = Map(path_sanitizer, DirNameText(selected_release))
    /\ IF album_exists THEN Goto("confirm") ELSE Goto("create_dir")
    /\ UNCHANGED << cliVars, mbVars, album_exists, album_old, confirm_prompts,
                    overwrite, removed, created, files, driveVars, trackVars,
                    sanVars >>

\* AfterConfirm that removes the directory whatever the answer.
AfterConfirmAlways(answer) == Goto("remove")

\* 136-140: remove_dir_all only `if overwrite`
AfterConfirm(answer) ==
    IF answer THEN Goto("remove") ELSE Goto("create_dir")

\* 130-136: Confirm::interact()?
ConfirmOverwrite ==
    /\ pc = "confirm"
    /\ confirm_prompts' = confirm_prompts + 1
    /\ \/ /\ Fail("PromptError")
          /\ UNCHANGED overwrite
       \/ \E answer \in BOOLEAN :
            /\ overwrite' = IF answer THEN "yes" ELSE "no"
            /\ AfterConfirm(answer)
    /\ UNCHANGED << cliVars, mbVars, dir_name, album_exists, album_old, removed,
                    created, files, driveVars, trackVars, sanVars >>

\* 137: std::fs::remove_dir_all(&album_dir)?  A failed removal may have
\* deleted part of the directory.
RemoveDirectory ==
    /\ pc = "remove"
    /\ removed' = TRUE
    /\ \/ /\ Fail("FilesystemError")
          /\ album_old' = FALSE
          /\ UNCHANGED album_exists
       \/ /\ album_exists' = FALSE
          /\ album_old' = FALSE
          /\ Goto("create_dir")
    /\ UNCHANGED << cliVars, mbVars, dir_name, confirm_prompts, overwrite,
                    created, files, driveVars, trackVars, sanVars >>

\* CreateDirectory that ignores the result of create_dir_all.
CreateDirectoryUnchecked ==
    /\ pc = "create_dir"
    /\ \E ok \in BOOLEAN :
         /\ album_exists' = (album_exists \/ ok)
         /\ created' = ok
    /\ Goto("open_drive")
    /\ UNCHANGED << cliVars, mbVars, dir_name, album_old, confirm_prompts,
                    overwrite, removed, files, driveVars, trackVars, sanVars >>

\* 140: std::fs::create_dir_all(&album_dir)?
CreateDirectory ==
    /\ pc = "create_dir"
    /\ \/ /\ Fail("FilesystemError")
          /\ UNCHANGED << album_exists, created >>
       \/ /\ album_exists' = TRUE
          /\ created' = TRUE
          /\ Goto("open_drive")
    /\ UNCHANGED << cliVars, mbVars, dir_name, album_old, confirm_prompts,
                    overwrite, removed, files, driveVars, trackVars, sanVars >>

(***************************************************************************)
(* main(), lines 142-169: the drive and the track loop                     *)
(***************************************************************************)
\* 142-148: CdromDrive::identify(..) and set_verbosity
IdentifyDrive ==
    /\ pc = "open_drive"
    /\ \/ /\ Fail("DeviceError")
          /\ UNCHANGED drive
       \/ /\ drive' = "identified"
          /\ Goto("open_drive2")
    /\ UNCHANGED << cliVars, mbVars, fsVars, errors_buf, messages_buf, undrained,
                    track_count, track_num, audio_tracks, trackVars, sanVars >>

\* 149-151: cdrom.open(), CdromParanoia::init, set_mode(FULL).  The drive
\* may log text while it opens.
OpenDrive ==
    /\ pc = "open_drive2"
    /\ \/ /\ Fail("DeviceError")
          /\ UNCHANGED << drive, errors_buf, messages_buf, undrained >>
       \/ /\ drive' = "open"
          /\ errors_buf' \in BOOLEAN
          /\ messages_buf' \in BOOLEAN
          /\ undrained' = TRUE
          /\ Goto("drain_open")
    /\ UNCHANGED << cliVars, mbVars, fsVars, track_count, track_num,
                    audio_tracks, trackVars, sanVars >>

\* drive().errors() and drive().messages(): take and clear the pending text.
Drain ==
    /\ errors_buf' = FALSE
    /\ messages_buf' = FALSE
    /\ undrained' = FALSE

\* 153-162: the drain after the drive is opened
DrainAfterOpen ==
    /\ pc = "drain_open"
    /\ Drain
    /\ Goto("track_count")
    /\ UNCHANGED << cliVars, mbVars, fsVars, drive, track_count, track_num,
                    audio_tracks, trackVars, sanVars >>

\* 164: paranoia.drive().tracks()?
TrackCount ==
    /\ pc = "track_count"
    /\ \/ /\ Fail("DeviceError")
          /\ UNCHANGED track_count
       \/ /\ track_count' \in 0..MaxTracks
          /\ Goto("loop")
    /\ UNCHANGED << cliVars, mbVars, fsVars, drive, errors_buf, messages_buf, undrained,
                    track_num, audio_tracks, trackVars, sanVars >>

\* The locals of a new iteration of the track loop.
NewTrackLocals ==
    /\ first_sector' = 0
    /\ last_sector' = 0
    /\ total_sectors' = 0
    /\ track_channels' = 0
    /\ track_duration' = 0
    /\ file_name' = << >>
    /\ encoder' = NoEncoder
    /\ seeks' = 0
    /\ reads' = << >>
    /\ writes' = << >>
    /\ UNCHANGED cursor

\* AfterAudioCheck without the `continue`.
AfterAudioCheckNoSkip(audio) == Goto("sector_range")

\* 166-169: a track that is not audio is skipped
AfterAudioCheck(audio) ==
    IF audio THEN Goto("sector_range") ELSE Goto("loop")

\* 165-169: the next track number and track_audiop(track_num)?
NextTrack ==
    /\ pc = "loop"
    /\ track_num < track_count
    /\ track_num' = track_num + 1
    /\ NewTrackLocals
    /\ \/ /\ Fail("DeviceError")
          /\ UNCHANGED audio_tracks
       \/ \E audio \in BOOLEAN :
            /\ audio_tracks' = IF audio THEN audio_tracks \cup { track_num + 1 }
                                        ELSE audio_tracks
            /\ AfterAudioCheck(audio)
    /\ UNCHANGED << cliVars, mbVars, fsVars, drive, errors_buf, messages_buf, undrained,
                    track_count, sanVars >>

\* 165, 245: the loop is over, Ok(())
ReturnOk ==
    /\ pc = "loop"
    /\ track_num = track_count
    /\ pc' = "done"
    /\ outcome' = "Ok"
    /\ UNCHANGED << cliVars, mbVars, fsVars, driveVars, trackVars, sanVars >>

(***************************************************************************)
(* main(), lines 171-243: one audio track                                  *)
(***************************************************************************)
\* 173-178, once the drive has answered first, last and channels
RangeComputed(first, last, channels) ==
    /\ first_sector' = first
    /\ last_sector' = last
    /\ IF RangePanics(overflow_checks, first, last)
       THEN /\ Fail("Panic")
            /\ UNCHANGED << total_sectors, track_channels, track_duration >>
       ELSE /\ total_sectors' = TotalSectors(first, last)
            /\ track_channels' = channels
            /\ track_duration' = TrackDuration(TotalSectors(first, last), channels)
            /\ Goto("file_name")

\* 171-178: the sector range, the channels and the duration
SectorRange ==
    /\ pc = "sector_range"
    /\ \/ /\ Fail("DeviceError")
          /\ UNCHANGED << first_sector, last_sector, total_sectors,
                          track_channels, track_duration >>
       \/ \E first \in 0..MaxSector, last \in 0..MaxSector, channels \in Channels :
            RangeComputed(first, last, channels)
    /\ UNCHANGED << cliVars, mbVars, fsVars, driveVars, file_name, encoder,
                    cursor, seeks, reads, writes, sanVars >>

\* Whether tracks[track_num as usize - 1] is in bounds.
TrackIndexOk(tracks, num) == num - 1 < Len(tracks)

\* TrackFileName that falls back to an empty title for a missing track.
TrackFileNameLenient ==
    /\ pc = "file_name"
    /\ file_name' =
          FileName(multi_disc, mb_disc_info.position, track_num,
                   IF TrackIndexOk(mb_disc_info.tracks, track_num)
                   THEN mb_disc_info.tracks[track_num] ELSE << >>)
    /\ Goto("encoder_open")
    /\ UNCHANGED << cliVars, mbVars, fsVars, driveVars, first_sector,
                    last_sector, total_sectors, track_channels, track_duration,
                    encoder, cursor, seeks, reads, writes, sanVars >>

\* 180-199: the track of the matched medium and the file name
TrackFileName ==
    /\ pc = "file_name"
    /\ IF TrackIndexOk(mb_disc_info.tracks, track_num)
       THEN /\ file_name' = FileName(multi_disc, mb_disc_info.position, track_num,
                                     mb_disc_info.tracks[track_num])
            /\ Goto("encoder_open")
       ELSE /\ Fail("Panic")
            /\ UNCHANGED file_name
    /\ UNCHANGED << cliVars, mbVars, fsVars, driveVars, first_sector,
                    last_sector, total_sectors, track_channels, track_duration,
                    encoder, cursor, seeks, reads, writes, sanVars >>

\* Whether the directory a file of this name goes to can exist: album_dir
\* itself, or for a name with a '/' a subdirectory, which only a directory
\* that kept its prior contents can hold.
ParentMayExist(name) == ~HasChar(name, "/") \/ album_old

\* 201-207: the encoder and init_file(album_dir.join(file_name))
EncoderOpen ==
    /\ pc = "encoder_open"
    /\ LET config == [ state |-> "open", file |-> file_name,
                       channels |-> track_channels,
                       sample_rate |-> CD_SAMPLE_RATE,
                       bits_per_sample |-> BITS_PER_SAMPLE ]
       IN  \/ /\ encoder' = [ config EXCEPT !.state = "failed" ]
              /\ Fail("EncoderError")
              /\ UNCHANGED files
           \/ /\ ParentMayExist(file_name)
              /\ encoder' = config
              /\ files' = files \cup { file_name }
              /\ Goto("seek")
    /\ UNCHANGED << cliVars, mbVars, dir_name, album_exists, album_old,
                    confirm_prompts, overwrite, removed, created, driveVars,
                    first_sector, last_sector, total_sectors, track_channels,
                    track_duration, file_name, cursor, seeks, reads, writes,
                    sanVars >>

\* for _ in first_sector..=last_sector, after `done` iterations
SectorLoop(done) ==
    IF first_sector + done <= last_sector THEN Goto("read") ELSE Goto("finish")

\* 211: paranoia.seek(SeekFrom::Start(first_sector))?
Seek ==
    /\ pc = "seek"
    /\ seeks' = seeks + 1
    /\ \/ /\ Fail("DeviceError")
          /\ UNCHANGED cursor
       \/ /\ cursor' = first_sector
          /\ SectorLoop(0)
    /\ UNCHANGED << cliVars, mbVars, fsVars, driveVars, first_sector,
                    last_sector, total_sectors, track_channels, track_duration,
                    file_name, encoder, reads, writes, sanVars >>

\* 213-216: paranoia.read(..) of one sector, widened into widen_buffer.  The
\* drive may log text while it reads.
ReadSector ==
    /\ pc = "read"
    /\ reads' = Append(reads, cursor)
    /\ cursor' = cursor + 1
    /\ errors_buf' \in BOOLEAN
    /\ messages_buf' \in BOOLEAN
    /\ undrained' = TRUE
    /\ Goto("encode")
    /\ UNCHANGED << cliVars, mbVars, fsVars, drive, track_count, track_num,
                    audio_tracks, first_sector, last_sector, total_sectors,
                    track_channels, track_duration, file_name, encoder, seeks,
                    writes, sanVars >>

\* 217-219: encoder.process_interleaved(&widen_buffer, CD_FRAMEWORDS / channels)
EncodeSector ==
    /\ pc = "encode"
    /\ \/ /\ Fail("EncoderError")
          /\ UNCHANGED writes
       \/ /\ writes' = Append(writes, << reads[Len(reads)],
                                         CD_FRAMEWORDS \div track_channels >>)
          /\ Goto("drain")
    /\ UNCHANGED << cliVars, mbVars, fsVars, driveVars, first_sector,
                    last_sector, total_sectors, track_channels, track_duration,
                    file_name, encoder, cursor, seeks, reads, sanVars >>

\* 221-231: the drain after the sector, and the loop
DrainAfterSector ==
    /\ pc = "drain"
    /\ Drain
    /\ SectorLoop(Len(reads))
    /\ UNCHANGED << cliVars, mbVars, fsVars, drive, track_count, track_num,
                    audio_tracks, trackVars, sanVars >>

\* 233-235: encoder.finish()
FinishEncoder ==
    /\ pc = "finish"
    /\ \/ /\ encoder' = [ encoder EXCEPT !.state = "failed" ]
          /\ Fail("EncoderError")
       \/ /\ encoder' = [ encoder EXCEPT !.state = "finished" ]
          /\ Goto("report")
    /\ UNCHANGED << cliVars, mbVars, fsVars, driveVars, first_sector,
                    last_sector, total_sectors, track_channels, track_duration,
                    file_name, cursor, seeks, reads, writes, sanVars >>

\* 237-243: the elapsed time and the speed are printed
Report ==
    /\ pc = "report"
    /\ Goto("loop")
    /\ UNCHANGED << cliVars, mbVars, fsVars, driveVars, trackVars, sanVars >>

Next ==
    \/ SelectSanitizer
    \/ ReadDiscId
    \/ Lookup
    \/ SelectRelease
    \/ MatchMedium
    \/ PlanDirectory
    \/ ConfirmOverwrite
    \/ RemoveDirectory
    \/ CreateDirectory
    \/ IdentifyDrive
    \/ OpenDrive
    \/ DrainAfterOpen
    \/ TrackCount
    \/ NextTrack
    \/ ReturnOk
    \/ SectorRange
    \/ TrackFileName
    \/ EncoderOpen
    \/ Seek
    \/ ReadSector
    \/ EncodeSector
    \/ DrainAfterSector
    \/ FinishEncoder
    \/ Report

Spec == Init /\ [][Next]_vars

(***************************************************************************)
(* The sanitizer alone, on every text up to MaxLen characters              *)
(***************************************************************************)
SanAlphabet == { "/", ":", "?", "\"", "|", "*", "a", " ", "U+2215" }

SanInit ==
    /\ MainInit
    /\ ntfs_filenames = FALSE
    /\ overflow_checks = FALSE
    /\ album_exists = FALSE
    /\ san_kind \in { "Default", "Ntfs" }
    /\ san_in \in SeqsUpTo(SanAlphabet, MaxLen)
    /\ san_out = << >>
    /\ san_applied = FALSE

\* path_sanitizer.map(text)
SanApply ==
    /\ ~san_applied
    /\ san_out' = Map(san_kind, san_in)
    /\ san_applied' = TRUE
    /\ UNCHANGED << cliVars, pc, outcome, mbVars, fsVars, driveVars, trackVars,
                    san_kind, san_in >>

SanNext == SanApply

SanSpec == SanInit /\ [][SanNext]_vars

(***************************************************************************)
(* The sector arithmetic alone (175-178), from the state in which the      *)
(* first track of a matched single-medium release was found to be audio,   *)
(* on track lengths up to and beyond what fits the 32-bit product          *)
(***************************************************************************)
LongFirsts == { 0, 1, 150 }

LongLasts ==
    { 0, 1, 74, 75, 149, 1000, 333000, 449999, 3652183, 3652184, 3999999 }

LongChannels == { 1, 2, 4 }

LongInit ==
    /\ ntfs_filenames = FALSE
    /\ overflow_checks \in BOOLEAN
    /\ pc = "sector_range"
    /\ outcome = "running"
    /\ path_sanitizer = ChooseSanitizer(FALSE)
    /\ disc_id = "d1"
    /\ mb_info = LookupResponse("d1", << RelSingle >>)
    /\ release_summaries = Summaries(<< RelSingle >>)
    /\ select_prompts = 1
    /\ selected_release = RelSingle
    /\ multi_disc = FALSE
    /\ mb_disc_info = RelSingle.media[1]
    /\ dir_name = Map(ChooseSanitizer(FALSE), DirNameText(RelSingle))
    /\ album_exists = TRUE
    /\ album_old = FALSE
    /\ confirm_prompts = 0
    /\ overwrite = "none"
    /\ removed = FALSE
    /\ created = TRUE
    /\ files = { }
    /\ drive = "open"
    /\ errors_buf = FALSE
    /\ messages_buf = FALSE
    /\ undrained = FALSE
    /\ track_count = 1
    /\ track_num = 1
    /\ audio_tracks = { 1 }
    /\ TrackLocalsInit
    /\ cursor = 0
    /\ SanIdle

\* 171-178 with the drive answering a long track
LongSectorRange ==
    /\ pc = "sector_range"
    /\ \E first \in LongFirsts, last \in LongLasts, channels \in LongChannels :
          RangeComputed(first, last, channels)
    /\ UNCHANGED << cliVars, mbVars, fsVars, driveVars, file_name, encoder,
                    cursor, seeks, reads, writes, sanVars >>

LongNext == LongSectorRange

LongSpec == LongInit /\ [][LongNext]_vars

(***************************************************************************)
(* Properties                                                              *)
(***************************************************************************)
StrictSet == { "/", ":", "?", "\"", "|", "*" }

Failed == outcome \notin { "running", "Ok" }

\* C1: the sanitizer applied to the album directory name follows the flag:
\* the strict policy when ntfs_filenames is set, the default policy when not.
C1_PolicyFollowsFlag ==
    dir_name # << >> =>
        dir_name = IF ntfs_filenames
                   THEN MapNtfs(DirNameText(selected_release))
                   ELSE MapDefault(DirNameText(selected_release))

\* C2: the file name handed to the encoder never contains a '/'.
C2_FileNameHasNoSlash ==
    encoder.state # "none" => ~HasChar(encoder.file, "/")

\* C3: a track whose last sector lies before its first sector gets no
\* encoder and no sector read, and the run does not end successfully.
C3_InvalidRangeFails ==
    last_sector < first_sector =>
        /\ encoder.state \notin { "open", "finished" }
        /\ reads = << >>
        /\ (pc = "done" => Failed)

\* C4: a lookup response with zero releases ends the run with NoReleaseFound
\* and the selection prompt is never shown.
C4_NoReleaseNoPrompt ==
    (mb_info # NoInfo /\ mb_info.releases = << >>) =>
        /\ pc = "done"
        /\ outcome = "NoReleaseFound"
        /\ select_prompts = 0

C4_Witness ==
    /\ mb_info # NoInfo
    /\ mb_info.releases = << >>
    /\ outcome = "NoReleaseFound"

\* C5: once the overwrite of an existing album directory is declined, nothing
\* is removed and the prior contents stay untouched, and the run goes on to
\* create_dir_all and the rip: track files are written into that directory.
C5_DeclineKeepsDirectory ==
    overwrite = "no" =>
        /\ ~removed
        /\ album_exists
        /\ album_old
        /\ (pc = "done" => (created \/ outcome = "FilesystemError"))
        /\ (files # { } => created)

C5_Witness ==
    /\ overwrite = "no"
    /\ album_old
    /\ files # { }
    /\ encoder.state = "finished"

\* C6: the drive is identified or opened only after the album directory was
\* (re)created, a confirmed removal included, and a filesystem failure ends
\* the run with the drive never opened.
C6_DirectoryBeforeDrive ==
    /\ (drive # "closed" =>
            /\ created
            /\ album_exists
            /\ (overwrite = "yes" => removed /\ ~album_old))
    /\ (pc \in { "confirm", "remove", "create_dir" } => drive = "closed")
    /\ (outcome = "FilesystemError" => drive = "closed")

C6_Witness ==
    /\ drive = "open"
    /\ overwrite = "yes"
    /\ removed
    /\ created

\* C7: a track that is not audio gets no encoder, no seek, no sector read and
\* no file, and a run that ends successfully has created exactly one file for
\* each audio track.
C7_NonAudioSkipped ==
    /\ (track_num \notin audio_tracks =>
            /\ encoder.state = "none"
            /\ seeks = 0
            /\ reads = << >>
            /\ writes = << >>
            /\ file_name = << >>)
    /\ Cardinality(files) <= Cardinality(audio_tracks)
    /\ (outcome = "Ok" => Cardinality(files) = Cardinality(audio_tracks))

C7_Witness ==
    /\ outcome = "Ok"
    /\ track_count = 2
    /\ audio_tracks = { 1 }
    /\ Cardinality(files) = 1

\* C8: an audio track whose number exceeds the number of tracks of the matched
\* medium ends the run fatally, before an encoder is opened or a file created
\* for it.
C8_TrackCountMismatch ==
    (track_num \in audio_tracks /\ track_num > Len(mb_disc_info.tracks)) =>
        /\ pc \in { "sector_range", "file_name", "done" }
        /\ (pc = "done" => Failed)
        /\ encoder.state = "none"
        /\ file_name = << >>
        /\ Cardinality(files) < Cardinality(audio_tracks)

C8_Witness ==
    /\ track_num \in audio_tracks
    /\ mb_disc_info # NoMedium
    /\ track_num > Len(mb_disc_info.tracks)
    /\ outcome = "Panic"
    /\ total_sectors > 0

HoldsDisc(medium, id) == \E k \in 1..Len(medium.discs) : medium.discs[k] = id

\* Whether the matching of lines 116-120 has run.
Matched == selected_release # NoRelease /\ pc # "match"

\* C9: when no medium of the selected release holds the disc id the match
\* fails with NoMatchingMedium, and otherwise the medium used is a medium of
\* the selected release that holds the disc id.
C9_MatchingMedium ==
    /\ (Matched /\ \A i \in 1..Len(selected_release.media) :
                       ~HoldsDisc(selected_release.media[i], disc_id))
          => (outcome = "NoMatchingMedium" /\ mb_disc_info = NoMedium)
    /\ (Matched /\ \E i \in 1..Len(selected_release.media) :
                       HoldsDisc(selected_release.media[i], disc_id))
          => /\ outcome # "NoMatchingMedium"
             /\ HoldsDisc(mb_disc_info, disc_id)
             /\ \E i \in 1..Len(selected_release.media) :
                    selected_release.media[i] = mb_disc_info
    /\ (~Matched => mb_disc_info = NoMedium /\ outcome # "NoMatchingMedium")

C9_Witness ==
    /\ outcome = "NoMatchingMedium"
    /\ Len(selected_release.media) > 0

Replaced(kind) == IF kind = "Default" THEN { "/" } ELSE StrictSet

\* C10: the output of either sanitizer holds none of the characters it
\* replaces, is defined for every text (replace_all is given as many
\* replacements as patterns), and keeps every other character unchanged at
\* its place.
C10_SanitizerOutput ==
    san_applied =>
        /\ Len(NtfsReplacements) = Len(NtfsPatterns)
        /\ Len(san_out) = Len(san_in)
        /\ DOMAIN san_out = 1..Len(san_in)
        /\ \A i \in 1..Len(san_in) :
              /\ san_out[i] \notin Replaced(san_kind)
              /\ (san_in[i] \notin Replaced(san_kind) => san_out[i] = san_in[i])

C10_Witness ==
    /\ san_applied
    /\ san_kind = "Ntfs"
    /\ Len(san_in) = MaxLen
    /\ HasChar(san_in, "*")
    /\ HasChar(san_in, "a")
    /\ HasChar(san_in, "U+2215")

\* C11: the duration of an audio track is the truncated quotient
\* total_sectors * CD_FRAMEWORDS / (CD_SAMPLE_RATE * channels) of its true
\* sector count, whatever its length (the fraction is taken in lowest terms,
\* 588 dividing both constants).
C11_DurationExact ==
    (track_num \in audio_tracks /\ last_sector >= first_sector) =>
        /\ ~(outcome = "Panic" /\ track_channels = 0)
        /\ (track_channels >= 1 =>
               track_duration =
                  ((last_sector - first_sector + 1) * (CD_FRAMEWORDS \div 588))
                     \div ((CD_SAMPLE_RATE \div 588) * track_channels))

\* C12: every sector read is followed by a drain before the next read,
\* before the track is finalized and before the run ends, and the opening of
\* the drive is followed by a drain before the tracks are counted.
C12_DrainAfterEverySector ==
    undrained => pc \in { "drain_open", "encode", "drain" }

TwoDigits(n) == << Digit(n \div 10), Digit(n % 10) >>

\* C14: the file name of a track is "NN title.flac", NN the track number in
\* two digits, preceded by "P-" (P the position of the matched medium) when
\* and only when the selected release has more than one medium.
C14_FileNameFormat ==
    /\ FileName(FALSE, 1, 7, << "I", "n", "t", "e", "r", "l", "u", "d", "e" >>)
          = << "0", "7", " ", "I", "n", "t", "e", "r", "l", "u", "d", "e",
               ".", "f", "l", "a", "c" >>
    /\ FileName(TRUE, 2, 3, << "C", "o", "d", "a" >>)
          = << "2", "-", "0", "3", " ", "C", "o", "d", "a", ".", "f", "l", "a", "c" >>
    /\ (file_name # << >> =>
          LET stem == TwoDigits(track_num) \o << " " >>
                         \o mb_disc_info.tracks[track_num]
                         \o << ".", "f", "l", "a", "c" >>
          IN  /\ HoldsDisc(mb_disc_info, disc_id)
              /\ file_name =
                    IF Len(selected_release.media) > 1
                    THEN << Digit(mb_disc_info.position), "-" >> \o stem
                    ELSE stem)

C14_Witness ==
    /\ Len(selected_release.media) = 2
    /\ mb_disc_info.position = 2
    /\ file_name = << "2", "-", "0", "1", " ", "C", "o", "d", "a",
                      ".", "f", "l", "a", "c" >>

RECURSIVE CreditsLen(_, _)
\* The number of characters of the first k credits, names and join-phrases.
CreditsLen(credits, k) ==
    IF k = 0 THEN 0
    ELSE CreditsLen(credits, k - 1) + Len(credits[k].name)
            + Len(credits[k].joinphrase)

\* Whether text is the credits laid end to end: each name at its place,
\* followed at once by its join-phrase, and nothing else.
IsCredits(text, credits) ==
    /\ Len(text) = CreditsLen(credits, Len(credits))
    /\ \A k \in 1..Len(credits) :
          /\ \A i \in 1..Len(credits[k].name) :
                text[CreditsLen(credits, k - 1) + i] = credits[k].name[i]
          /\ \A i \in 1..Len(credits[k].joinphrase) :
                text[CreditsLen(credits, k - 1) + Len(credits[k].name) + i]
                   = credits[k].joinphrase[i]

\* C15: the artist string is the credits' names, each followed at once by
\* its join-phrase, in order and with nothing added; the string shown in the
\* summary of the selected release is the one the directory name is made of.
C15_ArtistString ==
    /\ ArtistString(<< Credit(<< "A", "i", "r" >>, << " ", "&", " " >>),
                       Credit(<< "V", "a", "r", "d", "a" >>, << >>) >>)
          = << "A", "i", "r", " ", "&", " ", "V", "a", "r", "d", "a" >>
    /\ (release_summaries # << >> =>
          /\ Len(release_summaries) = Len(mb_info.releases)
          /\ \A i \in 1..Len(release_summaries) :
                IsCredits(release_summaries[i].artist,
                          mb_info.releases[i].artist_credit))
    /\ (dir_name # << >> =>
          \E i \in 1..Len(release_summaries) :
             /\ mb_info.releases[i] = selected_release
             /\ dir_name = Map(path_sanitizer,
                               release_summaries[i].artist \o << " ", "-", " " >>
                                  \o selected_release.title))

C15_Witness ==
    /\ dir_name # << >>
    /\ selected_release = RelSingle
    /\ release_summaries[1].artist
          = << "A", "i", "r", " ", "&", " ", "V", "a", "r", "d", "a" >>

\* C16: a track ripped to completion had one seek, to first_sector, after
\* its encoder was opened, then last_sector - first_sector + 1 = total_sectors
\* reads, of first_sector..last_sector in order, and each sector read was
\* written once, in read order, as CD_FRAMEWORDS / channels frames, before
\* the next read.
C16_SectorsReadAndWritten ==
    /\ (seeks > 0 => seeks = 1 /\ encoder.state # "none")
    /\ (reads # << >> => seeks = 1)
    /\ \A i \in 1..Len(reads) : reads[i] = first_sector + i - 1
    /\ Len(writes) <= Len(reads)
    /\ Len(reads) <= Len(writes) + 1
    /\ (pc = "read" => Len(writes) = Len(reads))
    /\ \A i \in 1..Len(writes) :
          writes[i] = << reads[i], CD_FRAMEWORDS \div track_channels >>
    /\ (encoder.state = "finished" =>
          /\ seeks = 1
          /\ total_sectors = last_sector - first_sector + 1
          /\ Len(reads) = total_sectors
          /\ Len(writes) = total_sectors)

\* C17: a failure ends the run at once, as a failure: whatever failed, main()
\* is over, and no read, write, finish, file or later track follows it.
C17_FailureAborts ==
    /\ [](Failed => pc = "done")
    /\ [](encoder.state = "failed" => Failed)
    /\ [][Failed => UNCHANGED << outcome, track_num, encoder, files, cursor,
                                 seeks, reads, writes >>]_vars

C17_Witness ==
    /\ Failed
    /\ encoder.state = "failed"
    /\ reads # << >>
    /\ track_num < track_count

\* NotStarted 0, SectorRangeComputed 1, EncoderOpened 2, Reading 3,
\* Finalized 4: the state of the track that main() is at.
TrackState ==
    CASE pc \in { "file_name", "encoder_open" } -> 1
      [] pc = "seek" -> 2
      [] pc \in { "read", "encode", "drain" } -> 3
      [] pc = "finish" -> IF reads = << >> THEN 2 ELSE 3
      [] pc \in { "report", "loop" } /\ encoder.state = "finished" -> 4
      [] OTHER -> 0

\* C18: while the run goes on, a track stays in its state or moves to the
\* next one of NotStarted, SectorRangeComputed, EncoderOpened, Reading,
\* Finalized; the next track, one number higher, is begun only from
\* NotStarted (a track that is not audio) or Finalized; and a finalized
\* encoder has had every sector of its track written.
C18_TrackStateOrder ==
    [][ pc' # "done" =>
          /\ \/ /\ track_num' = track_num
                /\ TrackState' \in { TrackState, TrackState + 1 }
             \/ /\ track_num' = track_num + 1
                /\ TrackState \in { 0, 4 }
                /\ TrackState' \in { 0, 1 }
          /\ (encoder'.state = "finished" =>
                \A sector \in first_sector'..last_sector' :
                   \E i \in 1..Len(writes') : writes'[i][1] = sector) ]_vars

\* C19: the confirmation is asked for only when the path exists, the
\* directory is removed only after a "yes", after a "yes" the directory is
\* created only once the old one is removed, and the tracks of a run that
\* was answered "yes" go to a directory without its prior contents.
C19_OverwriteOrder ==
    /\ [][ /\ (confirm_prompts' # confirm_prompts => album_exists)
           /\ (removed' /\ ~removed => overwrite = "yes")
           /\ (created' /\ ~created /\ overwrite = "yes" =>
                  removed /\ ~album_exists /\ ~album_old) ]_vars
    /\ [](removed => overwrite = "yes" /\ confirm_prompts = 1)
    /\ [](overwrite = "yes" /\ track_num > 0 =>
             removed /\ created /\ ~album_old)

C19_Witness ==
    /\ overwrite = "yes"
    /\ removed
    /\ created
    /\ track_num = 1
    /\ encoder.state = "open"

\* C20: a run that ended with a lookup error, with no release found or with
\* no matching medium has removed and created no directory, asked for no
\* confirmation, left the drive closed and has no encoder and no file.
C20_NoEffectBeforeMatch ==
    outcome \in { "LookupError", "NoReleaseFound", "NoMatchingMedium" } =>
        /\ ~removed
        /\ ~created
        /\ album_old = album_exists
        /\ confirm_prompts = 0
        /\ drive = "closed"
        /\ encoder = NoEncoder
        /\ files = { }

C20_Witness ==
    /\ outcome = "NoMatchingMedium"
    /\ album_exists
    /\ select_prompts = 1
    /\ pc = "done"

=============================================================================
